---- MODULE Spec2Model ----
(***************************************************************************)
(* RFP -> Proposal service (src/main.py, src/schemas.py).                  *)
(*                                                                         *)
(* Three parts of the program are modelled:                                *)
(*   - simple_proposal_generator: the heuristic field extractor, with the  *)
(*     regular expressions evaluated as Python's re.search evaluates them  *)
(*     (leftmost start, alternatives in order, greedy with backtracking);  *)
(*   - extract_text_from_file: the format decoder and its dispatch;        *)
(*   - the request handlers upload_rfp, create_proposal_doc and            *)
(*     regenerate_proposal_doc acting on the document store.               *)
(*                                                                         *)
(* A string is a sequence of one-character strings; bytes are numbers.     *)
(***************************************************************************)
EXTENDS Integers, Sequences, FiniteSets, TLC

VARIABLES
    text,       \* simple_proposal_generator: the argument
    result,     \* simple_proposal_generator: the returned dict
    gpc,        \* "call" before simple_proposal_generator ran, "done" after
    upload,     \* extract_text_from_file: the upload and its bytes
    parsers,    \* the optional parsers: whether imported, what they make of the bytes
    decoded,    \* extract_text_from_file: the returned string and its rule
    dpc,        \* "call" before extract_text_from_file ran, "done" after
    db,         \* the document store: every inserted document, in order
    response,   \* the last handler's response
    calls       \* how often the handlers called the decoder and the generator

vars == <<text, result, gpc, upload, parsers, decoded, dpc, db, response, calls>>

\* Python's None.
None == <<"None">>

------------------------------------------------------------------------------
(* Characters *)

LowerSeq ==
    <<"a","b","c","d","e","f","g","h","i","j","k","l","m","n","o","p","q","r","s","t","u","v",
      "w","x","y","z">>
UpperSeq ==
    <<"A","B","C","D","E","F","G","H","I","J","K","L","M","N","O","P","Q","R","S","T","U","V",
      "W","X","Y","Z">>
LowerLetters == {LowerSeq[i] : i \in 1..26}
UpperLetters == {UpperSeq[i] : i \in 1..26}
Letters == LowerLetters \cup UpperLetters
Digits == {"0", "1", "2", "3", "4", "5", "6", "7", "8", "9"}
\* str.isspace() and the pattern class \s, over the characters of the model.
Whitespace == {" ", "\t", "\n", "\r"}
\* The printable ASCII characters, from " " (32) to "~" (126); the grave
\* accent (96), which a string of this language cannot hold, by name.
Printable ==
    <<" ","!","\"","#","$","%","&","'","(",")","*","+",",","-",".","/","0","1","2","3","4","5",
      "6","7","8","9",":",";","<","=",">","?","@","A","B","C","D","E","F","G","H","I","J","K",
      "L","M","N","O","P","Q","R","S","T","U","V","W","X","Y","Z","[","\\","]","^","_","U+0060",
      "a","b","c","d","e","f","g","h","i","j","k","l","m","n","o","p","q","r","s","t","u","v",
      "w","x","y","z","{","|","}","~">>
\* Two characters outside ASCII, by name: U+00E9 (a letter, so in \w) and
\* U+FFFD, the replacement character of a lossy decode.
EAcute == "U+00E9"
Replacement == "U+FFFD"
AllChars == {Printable[i] : i \in 1..95} \cup Whitespace \cup {EAcute, Replacement}

\* re.IGNORECASE compares letters by their lower case.
LowerOf == [c \in UpperLetters |-> LowerSeq[CHOOSE i \in 1..26 : UpperSeq[i] = c]]
Lower(c) == IF c \in UpperLetters THEN LowerOf[c] ELSE c

\* The pattern classes of simple_proposal_generator.
DotClass == AllChars \ {"\n"}                          \* .
SepClass == {":"} \cup Whitespace                      \* [:\s]
WordClass == Letters \cup Digits \cup {"_", EAcute}    \* \w
ClientClass == WordClass \cup {"&", "-"} \cup Whitespace     \* [\w&\-\s]
DateClass == Letters \cup Digits \cup {",", "-", "/", " "}   \* [A-Za-z0-9,\-/ ]
StripClass == {".", ":", ",", ";", "-"}                \* .strip(".:,;-")

------------------------------------------------------------------------------
(* Sequences *)

MinOf(S) == CHOOSE x \in S : \A y \in S : x <= y
MaxOf(S) == CHOOSE x \in S : \A y \in S : x >= y
Least(a, b) == IF a <= b THEN a ELSE b

\* s[:n]
Take(s, n) == SubSeq(s, 1, Least(n, Len(s)))

\* The number of consecutive characters of class C in buf from position p on.
RunLen(buf, p, C) ==
    LET stops == {j \in p..Len(buf) : buf[j] \notin C}
    IN  IF stops = {} THEN Len(buf) + 1 - p ELSE MinOf(stops) - p

\* str.strip(chars): the characters of C removed from both ends.
Strip(s, C) ==
    LET keep == {j \in 1..Len(s) : s[j] \notin C}
    IN  IF keep = {} THEN << >> ELSE SubSeq(s, MinOf(keep), MaxOf(keep))

\* The literal kw (in lower case) matches buf at position i, ignoring case.
MatchLit(buf, i, kw) ==
    /\ i >= 1
    /\ i + Len(kw) - 1 <= Len(buf)
    /\ \A j \in 1..Len(kw) : Lower(buf[i + j - 1]) = kw[j]

\* sep.join(ls)
RECURSIVE JoinFrom(_, _, _)
JoinFrom(ls, k, sep) ==
    IF k > Len(ls) THEN << >>
    ELSE IF k = Len(ls) THEN ls[k]
    ELSE ls[k] \o sep \o JoinFrom(ls, k + 1, sep)
Join(ls, sep) == JoinFrom(ls, 1, sep)

\* str.splitlines(): the ends of the line terminators (a "\r\n" is one
\* terminator, ending at the "\n"), and the lines between them; a last line
\* without terminator counts, an empty rest after the last terminator not.
TerminatorEnds(t) ==
    {i \in 1..Len(t) :
        \/ t[i] = "\n"
        \/ t[i] = "\r" /\ ~(i < Len(t) /\ t[i + 1] = "\n")}
SplitLines(t) ==
    LET E == TerminatorEnds(t)
        starts == {1} \cup {e + 1 : e \in E}
        begins == {s \in starts : s <= Len(t)}
        nth(k) == CHOOSE s \in begins : Cardinality({r \in begins : r < s}) = k - 1
        stop(s) ==
            LET later == {e \in E : e >= s}
            IN  IF later = {} THEN Len(t)
                ELSE LET e == MinOf(later)
                     IN  IF t[e] = "\n" /\ e > s /\ t[e - 1] = "\r" THEN e - 2 ELSE e - 1
    IN  [k \in 1..Cardinality(begins) |-> SubSeq(t, nth(k), stop(nth(k)))]

------------------------------------------------------------------------------
(* The regular expressions of simple_proposal_generator.  Each pattern       *)
(* operator is re.search(pat, buf, flags=re.IGNORECASE): None when nothing   *)
(* matches, else group(1) of the match re.search returns.                    *)

\* [:\s]+(CLASS{lo,hi}) from position e on: the separators are greedy and
\* give characters back until lo characters of the class follow; the group
\* is then as long as it can be, up to hi.  None when nothing matches.
SepThenGroup(buf, e, C, lo, hi) ==
    LET ms == {m \in 1..RunLen(buf, e, SepClass) : RunLen(buf, e + m, C) >= lo}
    IN  IF ms = {} THEN None
        ELSE LET g == e + MaxOf(ms)
             IN  SubSeq(buf, g, g + Least(RunLen(buf, g, C), hi) - 1)

\* (?:k1|k2|...)[:\s]+(.{lo,hi}) at position i: the alternatives in order.
LabelAt(buf, i, kws, lo, hi) ==
    LET ok == {k \in 1..Len(kws) :
                  /\ MatchLit(buf, i, kws[k])
                  /\ SepThenGroup(buf, i + Len(kws[k]), DotClass, lo, hi) # None}
    IN  IF ok = {} THEN None
        ELSE SepThenGroup(buf, i + Len(kws[MinOf(ok)]), DotClass, lo, hi)

\* re.search of a labelled pattern: the leftmost position with a match.
LabelSearch(buf, kws, lo, hi) ==
    LET hits == {i \in 1..Len(buf) : LabelAt(buf, i, kws, lo, hi) # None}
    IN  IF hits = {} THEN None ELSE LabelAt(buf, MinOf(hits), kws, lo, hi)

ClientKeywords == <<
    <<"c","l","i","e","n","t">>,
    <<"a","g","e","n","c","y">>,
    <<"o","r","g","a","n","i","z","a","t","i","o","n">>,
    <<"c","o","m","p","a","n","y">> >>
ClientGroupMin == 2
ClientGroupMax == 80

\* r"(?:client|agency|organization|company)[:\s]+(.{2,80})"
ClientPattern1(buf) == LabelSearch(buf, ClientKeywords, ClientGroupMin, ClientGroupMax)

ForGroupMin == 2
ForGroupMax == 60

\* ([A-Z][\w&\-\s]{2,60}) at position q.
ForGroupAt(buf, q) ==
    IF /\ q <= Len(buf)
       /\ buf[q] \in Letters
       /\ RunLen(buf, q + 1, ClientClass) >= ForGroupMin
    THEN SubSeq(buf, q, q + Least(RunLen(buf, q + 1, ClientClass), ForGroupMax))
    ELSE None

\* \bfor\s+(?:the\s+)?(...) at position i.  The places the group may start
\* at, as <<w, b, w2>>: w whitespace after "for", then either (b = 1) "the"
\* and w2 whitespace, or (b = 0) nothing.  The engine prefers more
\* whitespace, then the optional "the", then more whitespace after it.
ForStarts(buf, i) ==
    IF ~(/\ MatchLit(buf, i, <<"f", "o", "r">>)
         /\ (i = 1 \/ buf[i - 1] \notin WordClass))
    THEN {}
    ELSE LET ws == RunLen(buf, i + 3, Whitespace)
             gap(w) == IF MatchLit(buf, i + 3 + w, <<"t", "h", "e">>)
                       THEN RunLen(buf, i + 6 + w, Whitespace) ELSE 0
             withThe == UNION {{<<w, 1, w2>> : w2 \in 1..gap(w)} : w \in 1..ws}
             plain == {<<w, 0, 0>> : w \in 1..ws}
         IN  {c \in withThe : ForGroupAt(buf, i + 6 + c[1] + c[3]) # None}
             \cup {c \in plain : ForGroupAt(buf, i + 3 + c[1]) # None}
Preferred(a, b) ==
    \/ a[1] > b[1]
    \/ a[1] = b[1] /\ a[2] > b[2]
    \/ a[1] = b[1] /\ a[2] = b[2] /\ a[3] >= b[3]
ForAt(buf, i) ==
    LET S == ForStarts(buf, i)
    IN  IF S = {} THEN None
        ELSE LET c == CHOOSE a \in S : \A b \in S : Preferred(a, b)
             IN  ForGroupAt(buf, i + 3 + c[1] + (IF c[2] = 1 THEN 3 + c[3] ELSE 0))

\* r"\bfor\s+(?:the\s+)?([A-Z][\w&\-\s]{2,60})"
ClientPattern2(buf) ==
    LET hits == {i \in 1..Len(buf) : ForAt(buf, i) # None}
    IN  IF hits = {} THEN None ELSE ForAt(buf, MinOf(hits))

ProjectKeywords == <<
    <<"p","r","o","j","e","c","t">>,
    <<"r","f","p"," ","t","i","t","l","e">>,
    <<"s","u","b","j","e","c","t">> >>
ProjectGroupMin == 2
ProjectGroupMax == 120

\* r"(?:project|rfp title|subject)[:\s]+(.{2,120})"
ProjPattern1(buf) == LabelSearch(buf, ProjectKeywords, ProjectGroupMin, ProjectGroupMax)

DateGroupMin == 4
DateGroupMax == 40

\* first \s+ second [:\s]+ ([A-Za-z0-9,\-/ ]{4,40}) at position i, where
\* first is one of the literals firsts (tried in order): more whitespace
\* between the two words is preferred.
TwoWordsAt(buf, i, firsts, second) ==
    LET gap(k) == IF MatchLit(buf, i, firsts[k])
                  THEN RunLen(buf, i + Len(firsts[k]), Whitespace) ELSE 0
        all == UNION {{<<k, w>> : w \in 1..gap(k)} : k \in 1..Len(firsts)}
        after(c) == i + Len(firsts[c[1]]) + c[2]
        S == {c \in all :
                 /\ MatchLit(buf, after(c), second)
                 /\ SepThenGroup(buf, after(c) + Len(second),
                                 DateClass, DateGroupMin, DateGroupMax) # None}
    IN  IF S = {} THEN None
        ELSE LET c == CHOOSE a \in S : \A b \in S :
                          a[1] < b[1] \/ (a[1] = b[1] /\ a[2] >= b[2])
             IN  SepThenGroup(buf, after(c) + Len(second),
                              DateClass, DateGroupMin, DateGroupMax)
TwoWordsSearch(buf, firsts, second) ==
    LET hits == {i \in 1..Len(buf) : TwoWordsAt(buf, i, firsts, second) # None}
    IN  IF hits = {} THEN None ELSE TwoWordsAt(buf, MinOf(hits), firsts, second)

\* r"due\s+date[:\s]+([A-Za-z0-9,\-/ ]{4,40})"
DatePattern1(buf) ==
    TwoWordsSearch(buf, << <<"d", "u", "e">> >>, <<"d", "a", "t", "e">>)

\* r"proposals?\s+due[:\s]+([A-Za-z0-9,\-/ ]{4,40})": the optional "s" is
\* greedy, so "proposals" is tried before "proposal".
DatePattern2(buf) ==
    TwoWordsSearch(buf,
        << <<"p", "r", "o", "p", "o", "s", "a", "l", "s">>,
           <<"p", "r", "o", "p", "o", "s", "a", "l">> >>,
        <<"d", "u", "e">>)

------------------------------------------------------------------------------
(* simple_proposal_generator *)

TitleMax == 120
ExcerptLines == 20
ExcerptMax == 800

\* lines = [l.strip() for l in text.splitlines() if l.strip()]
StripEach(ls) == [k \in 1..Len(ls) |-> Strip(ls[k], Whitespace)]
NonBlank(l) == l # << >>
Lines(t) == SelectSeq(StripEach(SplitLines(t)), NonBlank)

\* title = lines[0][:120] if lines else None
CandidateTitle(ls) == IF ls # << >> THEN Take(ls[1], TitleMax) ELSE None

\* The loop over a field's patterns: the first pattern that matches decides.
FirstMatch(groups) ==
    LET ok == {k \in 1..Len(groups) : groups[k] # None}
    IN  IF ok = {} THEN None ELSE groups[MinOf(ok)]

\* client = m.group(1).strip().strip(".:,;-")
DetectClient(joined) ==
    LET g == FirstMatch(<<ClientPattern1(joined), ClientPattern2(joined)>>)
    IN  IF g = None THEN None ELSE Strip(Strip(g, Whitespace), StripClass)

\* project = m.group(1).strip().strip(".:,;-")
DetectProject(joined) ==
    LET g == FirstMatch(<<ProjPattern1(joined)>>)
    IN  IF g = None THEN None ELSE Strip(Strip(g, Whitespace), StripClass)

\* due_date = m.group(1).strip()
DetectDueDate(joined) ==
    LET g == FirstMatch(<<DatePattern1(joined), DatePattern2(joined)>>)
    IN  IF g = None THEN None ELSE Strip(g, Whitespace)

\* Python's truth of an optional string: neither None nor empty.
Truthy(s) == s # None /\ s # << >>

SummaryHead ==
    <<"T","h","i","s"," ","p","r","o","p","o","s","a","l"," ","r","e","s","p","o","n","d","s",
      " ","t","o"," ","t","h","e"," ","R","F","P">>
SummaryFor ==
    <<" ","f","o","r"," ">>
SummaryMiddle ==
    <<"."," ","I","t"," ","o","u","t","l","i","n","e","s"," ","o","u","r"," ","u","n","d","e",
      "r","s","t","a","n","d","i","n","g",","," ","a","p","p","r","o","a","c","h",","," ","t",
      "i","m","e","l","i","n","e",","," ","a","n","d"," ","p","r","i","c","i","n","g"," ","t",
      "o"," ","d","e","l","i","v","e","r"," ","t","h","e"," ">>
RequestedSolution ==
    <<"r","e","q","u","e","s","t","e","d"," ","s","o","l","u","t","i","o","n">>
Summary(client, project) ==
    SummaryHead
    \o (IF Truthy(client) THEN SummaryFor \o client ELSE << >>)
    \o SummaryMiddle
    \o (IF Truthy(project) THEN project ELSE RequestedSolution)
    \o <<".">>

\* Mutant of NeedsExcerpt: one line too many, lines[:21].
NeedsExcerptOneMore(ls) == Take(Join(Take(ls, ExcerptLines + 1), <<" ">>), ExcerptMax)

\* needs_excerpt = " ".join(lines[:20])[:800]
NeedsExcerpt(ls) == Take(Join(Take(ls, ExcerptLines), <<" ">>), ExcerptMax)

HeadingSummary ==
    <<"E","x","e","c","u","t","i","v","e"," ","S","u","m","m","a","r","y">>
HeadingRequirements ==
    <<"U","n","d","e","r","s","t","a","n","d","i","n","g"," ","o","f"," ","R","e","q","u","i",
      "r","e","m","e","n","t","s">>
HeadingApproach ==
    <<"A","p","p","r","o","a","c","h"," ","&"," ","M","e","t","h","o","d","o","l","o","g","y">>
HeadingTeam ==
    <<"P","r","o","j","e","c","t"," ","T","e","a","m">>
HeadingTimeline ==
    <<"T","i","m","e","l","i","n","e">>
HeadingPricing ==
    <<"P","r","i","c","i","n","g">>
RequirementsFallback ==
    <<"W","e"," ","h","a","v","e"," ","c","a","r","e","f","u","l","l","y"," ","r","e","v","i",
      "e","w","e","d"," ","t","h","e"," ","R","F","P"," ","a","n","d"," ","u","n","d","e","r",
      "s","t","a","n","d"," ","t","h","e"," ","o","b","j","e","c","t","i","v","e","s"," ","a",
      "n","d"," ","c","o","n","s","t","r","a","i","n","t","s",".">>
ApproachContent ==
    <<"W","e"," ","w","i","l","l"," ","f","o","l","l","o","w"," ","a"," ","p","h","a","s","e",
      "d"," ","a","p","p","r","o","a","c","h",":"," ","d","i","s","c","o","v","e","r","y",",",
      " ","d","e","s","i","g","n",","," ","i","m","p","l","e","m","e","n","t","a","t","i","o",
      "n",","," ","t","e","s","t","i","n","g",","," ","a","n","d"," ","d","e","p","l","o","y",
      "m","e","n","t",","," ","e","n","s","u","r","i","n","g"," ","q","u","a","l","i","t","y",
      " ","a","n","d"," ","t","r","a","n","s","p","a","r","e","n","c","y"," ","t","h","r","o",
      "u","g","h","o","u","t",".">>
TeamContent ==
    <<"O","u","r"," ","e","x","p","e","r","i","e","n","c","e","d"," ","c","r","o","s","s","-",
      "f","u","n","c","t","i","o","n","a","l"," ","t","e","a","m"," ","w","i","l","l"," ","l",
      "e","a","d"," ","s","t","r","a","t","e","g","y",","," ","d","e","s","i","g","n",","," ",
      "e","n","g","i","n","e","e","r","i","n","g",","," ","Q","A",","," ","a","n","d"," ","p",
      "r","o","j","e","c","t"," ","m","a","n","a","g","e","m","e","n","t",".">>
TimelineContent ==
    <<"A"," ","d","e","t","a","i","l","e","d"," ","t","i","m","e","l","i","n","e"," ","w","i",
      "l","l"," ","b","e"," ","f","i","n","a","l","i","z","e","d"," ","u","p","o","n"," ","k",
      "i","c","k","o","f","f",";"," ","t","y","p","i","c","a","l"," ","d","e","l","i","v","e",
      "r","y"," ","o","c","c","u","r","s"," ","i","n"," ","8","-","1","2"," ","w","e","e","k",
      "s"," ","d","e","p","e","n","d","i","n","g"," ","o","n"," ","s","c","o","p","e",".">>
PricingContent ==
    <<"P","r","i","c","i","n","g"," ","i","s"," ","b","a","s","e","d"," ","o","n"," ","s","c",
      "o","p","e"," ","a","n","d"," ","e","f","f","o","r","t",";"," ","a"," ","f","i","x","e",
      "d"," ","b","i","d"," ","o","r"," ","t","i","m","e","-","a","n","d","-","m","a","t","e",
      "r","i","a","l","s"," ","m","o","d","e","l"," ","c","a","n"," ","b","e"," ","p","r","o",
      "v","i","d","e","d"," ","u","p","o","n"," ","c","l","a","r","i","f","i","c","a","t","i",
      "o","n"," ","o","f"," ","r","e","q","u","i","r","e","m","e","n","t","s",".">>
ProposalLiteral ==
    <<"P","r","o","p","o","s","a","l">>

\* Mutant of RequirementsContent: the excerpt without its fallback.
RequirementsContentNoFallback(ls) == NeedsExcerpt(ls)

\* "content": needs_excerpt or "We have carefully reviewed ..."
RequirementsContent(ls) ==
    IF NeedsExcerpt(ls) # << >> THEN NeedsExcerpt(ls) ELSE RequirementsFallback

Sections(summary, ls) ==
    << [heading |-> HeadingSummary, content |-> summary],
       [heading |-> HeadingRequirements, content |-> RequirementsContent(ls)],
       [heading |-> HeadingApproach, content |-> ApproachContent],
       [heading |-> HeadingTeam, content |-> TeamContent],
       [heading |-> HeadingTimeline, content |-> TimelineContent],
       [heading |-> HeadingPricing, content |-> PricingContent] >>

\* Mutant of TitleOut: the project whenever it is not None, empty or not.
TitleOutIfNotNone(project, title) ==
    IF project # None THEN project
    ELSE IF Truthy(title) THEN title
    ELSE ProposalLiteral

\* title_out = project or title or "Proposal"
TitleOut(project, title) ==
    IF Truthy(project) THEN project
    ELSE IF Truthy(title) THEN title
    ELSE ProposalLiteral

\* The three detections on the search buffer joined = "\n".join(lines).
DetectFields(joined) ==
    [client |-> DetectClient(joined),
     project |-> DetectProject(joined),
     due_date |-> DetectDueDate(joined)]

\* The returned dict, from the lines and the detected fields.
ProposalDict(lines, f) ==
    [title |-> TitleOut(f.project, CandidateTitle(lines)),
     summary |-> Summary(f.client, f.project),
     client_name |-> f.client,
     project_name |-> f.project,
     due_date |-> f.due_date,
     sections |-> Sections(Summary(f.client, f.project), lines)]

GenerateFromLines(lines) == ProposalDict(lines, DetectFields(Join(lines, <<"\n">>)))

simple_proposal_generator(t) == GenerateFromLines(Lines(t))

------------------------------------------------------------------------------
(* The texts simple_proposal_generator is applied to: every concatenation of *)
(* at most MaxPieces pieces of a vocabulary of labels, separators and        *)
(* values, and a list of longer examples.                                    *)

MaxPieces == 3

Vocabulary == <<
    <<"C","l","i","e","n","t">>,
    <<"p","r","o","j","e","c","t">>,
    <<"D","u","e"," ","D","a","t","e">>,
    <<"f","o","r"," ","t","h","e">>,
    <<"A","c","m","e"," ","C","o">>,
    <<"2","0","2","4">>,
    <<":">>,
    <<" ">>,
    <<"\n">>,
    <<"-">>,
    <<".">>,
    <<"\r","\n">> >>

RECURSIVE Concat(_, _)
Concat(ps, k) == IF k > Len(ps) THEN << >> ELSE Vocabulary[ps[k]] \o Concat(ps, k + 1)

PieceTexts ==
    {Concat(ps, 1) : ps \in UNION {[1..n -> 1..Len(Vocabulary)] : n \in 0..MaxPieces}}

\* n lines of len characters each, line k made of the k-th letter.
LetterLines(n, len) ==
    [p \in 1..(n * (len + 1) - 1) |->
        IF p % (len + 1) = 0 THEN "\n" ELSE LowerSeq[((p - 1) \div (len + 1)) + 1]]

\* The example of the specification's testable properties.
ExampleRfp ==
    <<"R","F","P"," ","T","i","t","l","e","\n","C","l","i","e","n","t",":"," ","A","c","m","e",
      " ","C","o","r","p","\n","P","r","o","j","e","c","t",":"," ","W","e","b","s","i","t","e",
      " ","R","e","d","e","s","i","g","n","\n","D","u","e"," ","D","a","t","e",":"," ","2","0",
      "2","4","-","1","2","-","0","1","\n",".",".",".">>
ExampleNoLabels ==
    <<"J","u","s","t"," ","s","o","m","e"," ","t","e","x","t">>
ExampleEmptyProject ==
    <<"P","r","o","j","e","c","t",":"," ",".",".","\n","S","c","o","p","e"," ","o","f"," ","w",
      "o","r","k">>
ExampleDateDash ==
    <<"D","u","e"," ","D","a","t","e",":"," ","2","0","2","4","-","1","2","-","0","1","-">>
ExampleForTwoLines ==
    <<"w","o","r","k"," ","f","o","r"," ","t","h","e"," ","B","i","g","\n","C","o"," ","n","o",
      "w">>
ExampleProposalLine ==
    <<"P","r","o","p","o","s","a","l">>
ExampleProposalsDue ==
    <<" "," ","S","u","b","j","e","c","t"," ","-"," ","A","u","d","i","t",";","\r","\n","P","r",
      "o","p","o","s","a","l","s"," "," ","d","u","e",":"," "," ","1"," ","M","a","y",","," ",
      "2","0","2","5",".","\n","\n","A","g","e","n","c","y",":","\t","C","i","t","y"," ","&",
      " ","C","o",".">>

ExampleTexts ==
    { ExampleRfp, ExampleNoLabels, ExampleEmptyProject, ExampleDateDash,
      ExampleForTwoLines, ExampleProposalLine, ExampleProposalsDue,
      LetterLines(1, 125), LetterLines(22, 2), LetterLines(20, 45),
      LetterLines(22, 45), <<"\n">> \o LetterLines(21, 3),
      <<"S", "u", "b", "j", "e", "c", "t", ":", " ">> \o LetterLines(1, 125) }

Texts == PieceTexts \cup ExampleTexts

NoResult == [title |-> None, summary |-> None, client_name |-> None,
             project_name |-> None, due_date |-> None, sections |-> << >>]
NoUpload == [content_type |-> None, filename |-> None, data |-> << >>]
NoParsers == [PyPDF2 |-> FALSE, docx |-> FALSE,
              pdf |-> [kind |-> "raise"], document |-> [kind |-> "raise"]]
NoDecoded == [text |-> None, rule |-> "none", raised |-> FALSE]
NoResponse == [handler |-> "none", status |-> 0]
NoCalls == [decoder |-> 0, generator |-> 0]

InitGenerator ==
    /\ text \in Texts
    /\ result = NoResult
    /\ gpc = "call"
    /\ upload = NoUpload
    /\ parsers = NoParsers
    /\ decoded = NoDecoded
    /\ dpc = "idle"
    /\ db = << >>
    /\ response = NoResponse
    /\ calls = NoCalls

\* result = simple_proposal_generator(text)
Generate ==
    /\ gpc = "call"
    /\ result' = simple_proposal_generator(text)
    /\ gpc' = "done"
    /\ UNCHANGED <<text, upload, parsers, decoded, dpc, db, response, calls>>

NextGenerator == Generate

SpecGenerator == InitGenerator /\ [][NextGenerator]_vars

------------------------------------------------------------------------------
(* extract_text_from_file *)

\* bytes.decode("utf-8", errors="replace") over the bytes of the model: tab,
\* line feed, carriage return and the printable ASCII bytes decode to their
\* character; 0xC3 0xA9 is the two-byte encoding of U+00E9; 0xA9 alone (a
\* continuation byte with no lead), 0xC3 without continuation, 0xC0 and 0xFF
\* (never valid) are each replaced by U+FFFD.
AsciiBytes == {9, 10, 13} \cup (32..126)
LeadByte == 195
ContinuationByte == 169
InvalidBytes == {192, 255}
ByteDomain == AsciiBytes \cup {LeadByte, ContinuationByte} \cup InvalidBytes

Chr(b) ==
    CASE b = 9 -> "\t"
      [] b = 10 -> "\n"
      [] b = 13 -> "\r"
      [] OTHER -> Printable[b - 31]

IsTwoByte(data, i) ==
    /\ data[i] = LeadByte
    /\ i < Len(data)
    /\ data[i + 1] = ContinuationByte

RECURSIVE DecodeFrom(_, _)
DecodeFrom(data, i) ==
    IF i > Len(data) THEN << >>
    ELSE IF data[i] \in AsciiBytes THEN <<Chr(data[i])>> \o DecodeFrom(data, i + 1)
    ELSE IF IsTwoByte(data, i) THEN <<EAcute>> \o DecodeFrom(data, i + 2)
    ELSE <<Replacement>> \o DecodeFrom(data, i + 1)
Utf8Replace(data) == DecodeFrom(data, 1)

\* str.lower(), str.startswith(), str.endswith()
LowerStr(s) == [i \in 1..Len(s) |-> Lower(s[i])]
StartsWith(s, p) == Len(p) <= Len(s) /\ SubSeq(s, 1, Len(p)) = p
EndsWith(s, p) == Len(p) <= Len(s) /\ SubSeq(s, Len(s) - Len(p) + 1, Len(s)) = p

TextPrefix ==
    <<"t","e","x","t","/">>
TxtSuffix ==
    <<".","t","x","t">>
PdfType ==
    <<"a","p","p","l","i","c","a","t","i","o","n","/","p","d","f">>
PdfSuffix ==
    <<".","p","d","f">>
DocxType ==
    <<"a","p","p","l","i","c","a","t","i","o","n","/","v","n","d",".","o","p","e","n","x","m",
      "l","f","o","r","m","a","t","s","-","o","f","f","i","c","e","d","o","c","u","m","e","n",
      "t",".","w","o","r","d","p","r","o","c","e","s","s","i","n","g","m","l",".","d","o","c",
      "u","m","e","n","t">>
MswordType ==
    <<"a","p","p","l","i","c","a","t","i","o","n","/","m","s","w","o","r","d">>
DocxSuffix ==
    <<".","d","o","c","x">>

\* mimetype = upload.content_type or "";  name = (upload.filename or "").lower()
Mimetype(up) == IF up.content_type = None THEN << >> ELSE up.content_type
Name(up) == IF up.filename = None THEN << >> ELSE LowerStr(up.filename)

\* The conditions of the three rules, without the capability.
IsText(up) == StartsWith(Mimetype(up), TextPrefix) \/ EndsWith(Name(up), TxtSuffix)
IsPdf(up) == Mimetype(up) = PdfType \/ EndsWith(Name(up), PdfSuffix)
IsDocx(up) == Mimetype(up) \in {DocxType, MswordType} \/ EndsWith(Name(up), DocxSuffix)

\* How a block of statements ends: it returns a value, it raises, or it runs
\* to its end (and the statements after it follow).
Return(v) == [kind |-> "return", value |-> v]
Raise == [kind |-> "raise", value |-> None]
FallThrough == [kind |-> "end", value |-> None]

\* Mutant of TryPass: no except clause, the exception leaves the function.
TryNothing(body) == body

\* try: <body> except Exception: pass
TryPass(body) == IF body.kind = "raise" THEN FallThrough ELSE body

\* try: text.append(page.extract_text() or "") except Exception: continue
\* The list after the page: a page of kind "text" yields its text, one of
\* kind "none" yields None, one of kind "raise" raises.
AppendPage(acc, page) ==
    CASE page.kind = "text" -> Append(acc, page.text)
      [] page.kind = "none" -> Append(acc, << >>)
      [] OTHER -> acc

\* for page in reader.pages: ...   Fetching a page of kind "unreadable"
\* raises, outside the loop body's try: the loop ends by raising.
RECURSIVE ReadPages(_, _, _)
ReadPages(pages, k, acc) ==
    IF k > Len(pages) THEN Return(acc)
    ELSE IF pages[k].kind = "unreadable" THEN Raise
    ELSE ReadPages(pages, k + 1, AppendPage(acc, pages[k]))

\* The body of the PDF rule's try: reader = PyPDF2.PdfReader(...) may
\* raise; if text: return "\n".join(text)
PdfBody(pdf) ==
    IF pdf.kind = "raise" THEN Raise
    ELSE LET read == ReadPages(pdf.pages, 1, << >>)
         IN  IF read.kind = "raise" THEN Raise
             ELSE IF read.value # << >> THEN Return(Join(read.value, <<"\n">>))
             ELSE FallThrough
PdfRule(pdf) == TryPass(PdfBody(pdf))

\* The body of the DOCX rule's try: docx.Document(...) may raise;
\* return "\n".join([p.text for p in document.paragraphs])
DocxBody(document) ==
    IF document.kind = "raise" THEN Raise
    ELSE Return(Join(document.paragraphs, <<"\n">>))
DocxRule(document) == TryPass(DocxBody(document))

\* e: the capabilities (the modules PyPDF2 and docx, None when their import
\* failed) and what the parsers make of the upload's bytes.  The result:
\* the returned string (or that an exception left the function), and the
\* rule that ended the call.
extract_text_from_file(up, e) ==
    LET pdf == IF IsPdf(up) /\ e.PyPDF2 THEN PdfRule(e.pdf) ELSE FallThrough
        doc == IF IsDocx(up) /\ e.docx THEN DocxRule(e.document) ELSE FallThrough
    IN  IF IsText(up)
        THEN [text |-> Utf8Replace(up.data), rule |-> "text", raised |-> FALSE]
        ELSE IF pdf.kind # "end"
        THEN [text |-> pdf.value, rule |-> "pdf", raised |-> pdf.kind = "raise"]
        ELSE IF doc.kind # "end"
        THEN [text |-> doc.value, rule |-> "docx", raised |-> doc.kind = "raise"]
        ELSE [text |-> Utf8Replace(up.data), rule |-> "fallback", raised |-> FALSE]

------------------------------------------------------------------------------
(* The uploads extract_text_from_file is applied to. *)

MaxPages == 2
MaxParagraphs == 1

ContentTypes ==
    { None, PdfType, MswordType, DocxType,
    <<"t","e","x","t","/","p","l","a","i","n">>,
    <<"a","p","p","l","i","c","a","t","i","o","n","/","o","c","t","e","t","-","s","t","r","e",
      "a","m">> }
Filenames ==
    { None,
    <<"r","f","p",".","t","x","t">>,
    <<"R","F","P",".","P","D","F">>,
    <<"r","f","p",".","d","o","c","x">>,
    <<"r","f","p",".","b","i","n">> }
\* "Hi", "C" and U+00E9, and a lead byte without continuation, "A", 0xFF.
Datas == { << >>, <<72, 105>>, <<67, 195, 169>>, <<195, 65, 255>> }

PageText ==
    <<"P","g">>
ParagraphText ==
    <<"P","a","r">>
PageKinds ==
    { [kind |-> "text", text |-> PageText], [kind |-> "text", text |-> << >>],
      [kind |-> "none"], [kind |-> "raise"], [kind |-> "unreadable"] }
PdfOutcomes ==
    {[kind |-> "raise"]}
    \cup {[kind |-> "pages", pages |-> ps] :
             ps \in UNION {[1..n -> PageKinds] : n \in 0..MaxPages}}
DocxOutcomes ==
    {[kind |-> "raise"]}
    \cup {[kind |-> "document", paragraphs |-> ps] :
             ps \in UNION {[1..n -> {ParagraphText, << >>}] : n \in 0..MaxParagraphs}}

Uploads == [content_type : ContentTypes, filename : Filenames, data : Datas]
Parsers == [PyPDF2 : BOOLEAN, docx : BOOLEAN, pdf : PdfOutcomes, document : DocxOutcomes]

InitDecoder ==
    /\ upload \in Uploads
    /\ parsers \in Parsers
    /\ decoded = NoDecoded
    /\ dpc = "call"
    /\ text = << >>
    /\ result = NoResult
    /\ gpc = "idle"
    /\ db = << >>
    /\ response = NoResponse
    /\ calls = NoCalls

\* decoded = extract_text_from_file(upload, data)
Decode ==
    /\ dpc = "call"
    /\ decoded' = extract_text_from_file(upload, parsers)
    /\ dpc' = "done"
    /\ UNCHANGED <<text, result, gpc, upload, parsers, db, response, calls>>

NextDecoder == Decode

SpecDecoder == InitDecoder /\ [][NextDecoder]_vars

------------------------------------------------------------------------------
(* The document store and the request handlers. *)

\* The store is the list of the documents inserted so far, each with its
\* collection and its _id; the n-th inserted document gets the _id n.
NextId(d) == Len(d) + 1
\* datetime.now(timezone.utc), as a logical time that grows with the store.
Now(d) == Len(d) + 1

\* db[coll].insert_one(doc)
InsertOne(d, coll, doc) == Append(d, [coll |-> coll, id |-> NextId(d), doc |-> doc])

\* database.create_document(coll, model): the model's fields and the two
\* timestamps are inserted; the new _id is returned (NextId of the store
\* before the call).
create_document(d, coll, doc) ==
    InsertOne(d, coll, [created_at |-> Now(d), updated_at |-> Now(d)] @@ doc)

\* db[coll].find_one({"_id": oid}): the entry, or NoDocument for None.
NoDocument == [coll |-> "none", id |-> 0, doc |-> [version |-> 0]]
FindOne(d, coll, oid) ==
    LET found == {i \in 1..Len(d) : d[i].coll = coll /\ d[i].id = oid}
    IN  IF found = {} THEN NoDocument ELSE d[MinOf(found)]

\* x or default, for an optional string or JSON value
OrElse(x, default) == IF x = None \/ x = << >> THEN default ELSE x

RfpName ==
    <<"r","f","p">>
Generated ==
    <<"g","e","n","e","r","a","t","e","d">>
EmptyFile ==
    <<"E","m","p","t","y"," ","f","i","l","e">>

\* rfp = Rfp(filename=..., content=content, filesize=len(data), mimetype=...)
RfpDoc(file, content) ==
    [filename |-> OrElse(file.filename, RfpName),
     content |-> content,
     filesize |-> Len(file.data),
     mimetype |-> OrElse(file.content_type, None),
     uploaded_by |-> None]

\* prop = Proposal(rfp_id=rfp_id, title=proposal_dict["title"], ...)
ProposalDoc(rfp_id, proposal_dict, now) ==
    [rfp_id |-> rfp_id,
     title |-> proposal_dict.title,
     summary |-> proposal_dict.summary,
     client_name |-> proposal_dict.client_name,
     project_name |-> proposal_dict.project_name,
     due_date |-> proposal_dict.due_date,
     sections |-> proposal_dict.sections,
     status |-> Generated,
     generated_at |-> now]

\* proposal_id = create_document("proposal", prop) and the response, with d1
\* the store holding the rfp already.
StoreProposal(d1, c, file, rfp_id, proposal_dict) ==
    [db |-> create_document(d1, "proposal", ProposalDoc(rfp_id, proposal_dict, Now(d1))),
     calls |-> [decoder |-> c.decoder + 1, generator |-> c.generator + 1],
     response |-> [handler |-> "upload_rfp", request |-> file, status |-> 200,
                   proposal_id |-> NextId(d1), rfp_id |-> rfp_id]]

\* rfp_id = create_document("rfp", rfp), then the proposal from
\* simple_proposal_generator(content).  An exception of the decoder would
\* leave the handler before anything is stored.
StoreUpload(d, c, file, content) ==
    IF content.raised
    THEN [db |-> d, calls |-> [c EXCEPT !.decoder = @ + 1],
          response |-> [handler |-> "upload_rfp", request |-> file,
                        status |-> 500, detail |-> None]]
    ELSE StoreProposal(create_document(d, "rfp", RfpDoc(file, content.text)),
                       c, file, NextId(d), simple_proposal_generator(content.text))

\* Mutant of upload_rfp: without the check for an empty file.
upload_rfp_unchecked(d, c, file, e) ==
    StoreUpload(d, c, file, extract_text_from_file(file, e))

\* upload_rfp(file), with the store d and the call counts c before it and e
\* the parsers: the store and the counts after it, and the response.
upload_rfp(d, c, file, e) ==
    IF file.data = << >>
    THEN [db |-> d, calls |-> c,
          response |-> [handler |-> "upload_rfp", request |-> file,
                        status |-> 400, detail |-> EmptyFile]]
    ELSE StoreUpload(d, c, file, extract_text_from_file(file, e))

DefaultClient ==
    <<"C","l","i","e","n","t">>
DefaultProject ==
    <<"P","r","o","j","e","c","t">>
Draft ==
    <<"d","r","a","f","t">>
EmptyObject == << >>
InvalidId ==
    <<"I","n","v","a","l","i","d"," ","i","d">>
NotFound ==
    <<"N","o","t"," ","f","o","u","n","d">>

\* create_proposal_doc(payload)
create_proposal_doc(d, payload) ==
    LET doc == [clientName |-> OrElse(payload.clientName, DefaultClient),
                projectTitle |-> OrElse(payload.projectTitle, DefaultProject),
                rfpId |-> payload.rfpId,
                rfpFileUrl |-> None,
                placeholdersJson |-> OrElse(payload.placeholdersJson, EmptyObject),
                docxFileUrl |-> None,
                pdfFileUrl |-> None,
                status |-> OrElse(payload.status, Draft),
                version |-> 1,
                teamMemberIds |-> payload.teamMemberIds,
                projectHighlightIds |-> payload.projectHighlightIds]
    IN  [db |-> create_document(d, "proposaldoc", doc),
         response |-> [handler |-> "create_proposal_doc", request |-> payload,
                       status |-> 200, id |-> NextId(d), version |-> 1]]

\* Mutant of VersionOf: current.get("version", 0)
VersionOfDefaultZero(doc) == IF "version" \in DOMAIN doc THEN doc.version ELSE 0

\* current.get("version", 1)
VersionOf(doc) == IF "version" \in DOMAIN doc THEN doc.version ELSE 1

\* regenerate_proposal_doc(doc_id, payload).  doc_id.valid: whether
\* ObjectId(doc_id) accepts the string; doc_id.oid: the _id it then names.
regenerate_proposal_doc(d, doc_id, payload) ==
    LET current == FindOne(d, "proposaldoc", doc_id.oid)
        new_doc == [version |-> VersionOf(current.doc) + 1,
                    placeholdersJson |-> OrElse(payload.placeholdersJson, EmptyObject),
                    status |-> OrElse(payload.status, Draft),
                    created_at |-> Now(d),
                    updated_at |-> Now(d)] @@ current.doc
        request == [doc_id |-> doc_id, payload |-> payload]
    IN  IF ~doc_id.valid
        THEN [db |-> d,
              response |-> [handler |-> "regenerate_proposal_doc", request |-> request,
                            status |-> 400, detail |-> InvalidId]]
        ELSE IF current = NoDocument
        THEN [db |-> d,
              response |-> [handler |-> "regenerate_proposal_doc", request |-> request,
                            status |-> 404, detail |-> NotFound]]
        ELSE [db |-> InsertOne(d, "proposaldoc", new_doc),
              response |-> [handler |-> "regenerate_proposal_doc", request |-> request,
                            status |-> 200, id |-> NextId(d),
                            version |-> new_doc.version]]

------------------------------------------------------------------------------
(* The requests the handlers are applied to. *)

MaxDocs == 3

\* "Project: Ab", and a blank line followed by "C", U+00E9 and 0xFF.
ProjectBytes == <<80, 114, 111, 106, 101, 99, 116, 58, 32, 65, 98>>
OddBytes == <<32, 10, 67, 195, 169, 255>>

TextFile(data) ==
    [content_type |->
    <<"t","e","x","t","/","p","l","a","i","n">>,
     filename |->
    <<"r","f","p",".","t","x","t">>,
     data |-> data]
PdfFile(data) == [content_type |-> PdfType, filename |-> None, data |-> data]
TwoPages ==
    [kind |-> "pages",
     pages |-> << [kind |-> "text", text |-> PageText], [kind |-> "raise"] >>]

\* The uploads of the handler upload_rfp, each with the parsers it meets.
UploadRequests ==
    { [file |-> TextFile(<< >>), parsers |-> NoParsers],
      [file |-> PdfFile(<< >>), parsers |-> [NoParsers EXCEPT !.PyPDF2 = TRUE, !.pdf = TwoPages]],
      [file |-> TextFile(ProjectBytes), parsers |-> NoParsers],
      [file |-> PdfFile(OddBytes), parsers |-> [NoParsers EXCEPT !.PyPDF2 = TRUE, !.pdf = TwoPages]] }

Acme ==
    <<"A","c","m","e">>
Site ==
    <<"S","i","t","e">>
Sent ==
    <<"s","e","n","t">>
\* A JSON object is the list of its keys: <<"k1">>, <<"k2">>, and {} is << >>.

CreatePayloads ==
    [clientName : {<< >>, Acme}, projectTitle : {Site}, rfpId : {None},
     placeholdersJson : {None, <<"k1">>}, teamMemberIds : {<< >>},
     projectHighlightIds : {<< >>}, status : {Draft}]
RegeneratePayloads ==
    { [placeholdersJson |-> None, status |-> None],
      [placeholdersJson |-> <<"k2">>, status |-> Sent] }
DocIds == {[valid |-> FALSE, oid |-> 0]} \cup {[valid |-> TRUE, oid |-> n] : n \in 1..(MaxDocs + 1)}

\* A proposaldoc stored before the schema had a version.
LegacyDoc ==
    [coll |-> "proposaldoc", id |-> 1,
     doc |-> [clientName |-> Acme, projectTitle |-> Site, placeholdersJson |-> EmptyObject,
              status |-> Draft, created_at |-> 1, updated_at |-> 1]]

InitApi ==
    /\ db \in {<< >>, <<LegacyDoc>>}
    /\ response = NoResponse
    /\ calls = NoCalls
    /\ upload = NoUpload
    /\ parsers = NoParsers
    /\ decoded = NoDecoded
    /\ dpc = "idle"
    /\ text = << >>
    /\ result = NoResult
    /\ gpc = "idle"

UploadRfp ==
    \E r \in UploadRequests :
        LET out == upload_rfp(db, calls, r.file, r.parsers)
        IN  /\ Len(out.db) <= MaxDocs
            /\ db' = out.db
            /\ calls' = out.calls
            /\ response' = out.response
            /\ UNCHANGED <<text, result, gpc, upload, parsers, decoded, dpc>>

CreateProposalDoc ==
    \E payload \in CreatePayloads :
        LET out == create_proposal_doc(db, payload)
        IN  /\ Len(out.db) <= MaxDocs
            /\ db' = out.db
            /\ response' = out.response
            /\ UNCHANGED <<text, result, gpc, upload, parsers, decoded, dpc, calls>>

RegenerateProposalDoc ==
    \E doc_id \in DocIds, payload \in RegeneratePayloads :
        LET out == regenerate_proposal_doc(db, doc_id, payload)
        IN  /\ Len(out.db) <= MaxDocs
            /\ db' = out.db
            /\ response' = out.response
            /\ UNCHANGED <<text, result, gpc, upload, parsers, decoded, dpc, calls>>

NextApi == UploadRfp \/ CreateProposalDoc \/ RegenerateProposalDoc

SpecApi == InitApi /\ [][NextApi]_vars

------------------------------------------------------------------------------
(* Claims about simple_proposal_generator, under SpecGenerator. *)

Fields == {"client_name", "project_name", "due_date"}
Present(v) == v # None

AcmeCorp ==
    <<"A","c","m","e"," ","C","o","r","p">>
WebsiteRedesign ==
    <<"W","e","b","s","i","t","e"," ","R","e","d","e","s","i","g","n">>
DueDate20241201 ==
    <<"2","0","2","4","-","1","2","-","0","1">>

\* C1: for the text "RFP Title\nClient: Acme Corp\nProject: Website
\* Redesign\nDue Date: 2024-12-01\n...", the generator returns the client
\* "Acme Corp", the project "Website Redesign", the due date "2024-12-01" and
\* the title "Website Redesign": a label keyword on an earlier line ("RFP
\* Title") does not take the value away from the labelled line.
C1_SpecExample ==
    (gpc = "done" /\ text = ExampleRfp) =>
        /\ result.client_name = AcmeCorp
        /\ result.project_name = WebsiteRedesign
        /\ result.due_date = DueDate20241201
        /\ result.title = WebsiteRedesign

\* The label words of a field's patterns.
LabelWords(f) ==
    CASE f = "client_name" ->
            {ClientKeywords[k] : k \in 1..Len(ClientKeywords)} \cup {<<"f", "o", "r">>}
      [] f = "project_name" -> {ProjectKeywords[k] : k \in 1..Len(ProjectKeywords)}
      [] OTHER -> {<<"d", "u", "e">>}
\* s occurs in l; a label word occurs in l (ignoring case).
Occurs(s, l) == \E i \in 1..(Len(l) + 1) : SubSeq(l, i, i + Len(s) - 1) = s
HasLabel(l, f) == \E w \in LabelWords(f) : \E i \in 1..Len(l) : MatchLit(l, i, w)

\* C2: a match that sets client, project or due date does not span lines:
\* no extracted value contains a newline, and each value is taken from a
\* line that holds a label of its field.
C2_MatchWithinOneLine ==
    gpc = "done" =>
        \A f \in Fields :
            Present(result[f]) =>
                /\ \A i \in 1..Len(result[f]) : result[f][i] # "\n"
                /\ \E k \in 1..Len(Lines(text)) :
                      /\ HasLabel(Lines(text)[k], f)
                      /\ Occurs(result[f], Lines(text)[k])

\* C3: no returned client_name, project_name or due_date begins or ends with
\* one of the characters . : , ; -
C3_NoPunctuationAtEnds ==
    gpc = "done" =>
        \A f \in Fields :
            (Present(result[f]) /\ result[f] # << >>) =>
                /\ result[f][1] \notin StripClass
                /\ result[f][Len(result[f])] \notin StripClass

\* The first non-blank trimmed line of the text, cut to 120 characters.
FirstLine120(t) ==
    LET l == Lines(t)[1] IN [i \in 1..(IF Len(l) < 120 THEN Len(l) ELSE 120) |-> l[i]]

\* C4, as claimed: the title is the project name whenever a project pattern
\* matched; else the first non-blank line cut to 120 characters; and with no
\* non-blank line it is "Proposal" and the three fields are absent.
C4_TitleAsClaimed ==
    gpc = "done" =>
        /\ Present(result.project_name) => result.title = result.project_name
        /\ (~Present(result.project_name) /\ Lines(text) # << >>) =>
               result.title = FirstLine120(text)
        /\ Lines(text) = << >> =>
               /\ result.title = ProposalLiteral
               /\ \A f \in Fields : ~Present(result[f])

\* C4, amended: the title is the project name whenever a project pattern
\* matched and its value is not empty after stripping; else (no match, or a
\* match stripped to the empty string) the first non-blank line cut to 120
\* characters; and with no non-blank line it is "Proposal" and the three
\* fields are absent.
C4_Title ==
    gpc = "done" =>
        /\ (Present(result.project_name) /\ result.project_name # << >>) =>
               result.title = result.project_name
        /\ ((~Present(result.project_name) \/ result.project_name = << >>)
                /\ Lines(text) # << >>) =>
               result.title = FirstLine120(text)
        /\ Lines(text) = << >> =>
               /\ result.title = ProposalLiteral
               /\ \A f \in Fields : ~Present(result[f])

\* A project pattern matched and its value stripped to nothing: the title
\* is the first line.
C4_Witness ==
    /\ gpc = "done"
    /\ result.project_name = << >>
    /\ result.title = FirstLine120(text)

Headings ==
    <<HeadingSummary, HeadingRequirements, HeadingApproach, HeadingTeam,
      HeadingTimeline, HeadingPricing>>

\* C7: for every text, the empty one included, the generator returns a
\* record whose sections are exactly the six headings in their order, each
\* with content that is not empty, the first content being the summary.
C7_SixSections ==
    gpc = "done" =>
        /\ Len(result.sections) = 6
        /\ \A k \in 1..6 :
              /\ result.sections[k].heading = Headings[k]
              /\ result.sections[k].content # << >>
        /\ result.sections[1].content = result.summary
        /\ result.summary # None

\* The empty text went through the generator.
C7_Witness == gpc = "done" /\ text = << >> /\ Len(result.sections) = 6

\* The first n of the lines ls, and their join by single spaces.
FirstLines(ls, n) == [k \in 1..(IF Len(ls) < n THEN Len(ls) ELSE n) |-> ls[k]]
RECURSIVE SpaceJoined(_)
SpaceJoined(ls) ==
    IF ls = << >> THEN << >>
    ELSE IF Len(ls) = 1 THEN ls[1]
    ELSE ls[1] \o <<" ">> \o SpaceJoined(Tail(ls))
Excerpt(t) ==
    LET j == SpaceJoined(FirstLines(Lines(t), 20))
    IN  [i \in 1..(IF Len(j) < 800 THEN Len(j) ELSE 800) |-> j[i]]

\* C8: the content of "Understanding of Requirements" is the first 20
\* non-blank trimmed lines joined by single spaces and cut to 800
\* characters; the fallback sentence stands in exactly when that excerpt is
\* empty, which is when the text has no non-blank line.
C8_RequirementsExcerpt ==
    gpc = "done" =>
        /\ Len(Excerpt(text)) <= 800
        /\ (Excerpt(text) = << >>) <=> (Lines(text) = << >>)
        /\ result.sections[2].content =
               IF Excerpt(text) = << >> THEN RequirementsFallback ELSE Excerpt(text)

\* A text of more than 20 non-blank lines whose first 20 lines exceed 800
\* characters: the content has 800 characters and nothing of line 21.
C8_Witness ==
    /\ gpc = "done"
    /\ Len(Lines(text)) > 20
    /\ Len(result.sections[2].content) = 800
    /\ \A i \in 1..800 : result.sections[2].content[i] # Lines(text)[21][1]

------------------------------------------------------------------------------
(* Claims about extract_text_from_file, under SpecDecoder. *)

\* The upload reaches the PDF rule: not a text upload, PDF by type or
\* extension, and PyPDF2 imported.
AtPdfRule == ~IsText(upload) /\ IsPdf(upload) /\ parsers.PyPDF2

\* The reader opens and every page can be fetched.
PagesReadable ==
    /\ parsers.pdf.kind = "pages"
    /\ \A k \in 1..Len(parsers.pdf.pages) : parsers.pdf.pages[k].kind # "unreadable"

\* The texts of the pages whose extraction does not raise, in order.
PageTextOf(page) == IF page.kind = "text" THEN page.text ELSE << >>
KeptPages == SelectSeq(parsers.pdf.pages, LAMBDA page : page.kind # "raise")
KeptTexts == [k \in 1..Len(KeptPages) |-> PageTextOf(KeptPages[k])]

\* No page yields text: no pages, every page fails, or every page yields
\* the empty text.
NoPageYieldsText == \A k \in 1..Len(KeptTexts) : KeptTexts[k] = << >>

\* C5: at the PDF rule, pages whose extraction raises are skipped and the
\* texts of the others are joined by newlines; and when no page yields text
\* (no pages, every page fails, or every page yields empty text) the call
\* does not return from the PDF rule but goes on to the next rule.
C5_PdfPages ==
    (dpc = "done" /\ AtPdfRule /\ PagesReadable) =>
        /\ decoded.rule = "pdf" => decoded.text = Join(KeptTexts, <<"\n">>)
        /\ NoPageYieldsText => decoded.rule \in {"docx", "fallback"}

\* Every element of s is a character.
IsString(s) == s # None /\ \A i \in 1..Len(s) : s[i] \in AllChars

\* The capability of a format the upload indicates is missing.
PdfMissing == IsPdf(upload) /\ ~parsers.PyPDF2
DocxMissing == IsDocx(upload) /\ ~parsers.docx

\* C6, as claimed: the call returns a string and raises nothing; and when
\* the type or extension indicates PDF (or a word-processing format) and the
\* corresponding capability is unavailable, the result is the lossy UTF-8
\* decode of the bytes.
C6_FallbackAsClaimed ==
    dpc = "done" =>
        /\ ~decoded.raised
        /\ IsString(decoded.text)
        /\ (PdfMissing \/ DocxMissing) => decoded.text = Utf8Replace(upload.data)

\* C6, amended: the call returns a string and raises nothing; and when the
\* type or extension indicates PDF or a word-processing format and the
\* capability of every format so indicated is unavailable, the result is
\* the lossy UTF-8 decode of the bytes.
C6_Fallback ==
    dpc = "done" =>
        /\ ~decoded.raised
        /\ IsString(decoded.text)
        /\ ((IsPdf(upload) \/ IsDocx(upload))
               /\ (IsPdf(upload) => ~parsers.PyPDF2)
               /\ (IsDocx(upload) => ~parsers.docx)) =>
              decoded.text = Utf8Replace(upload.data)

\* A PDF upload with bytes that are not UTF-8, PyPDF2 missing: the fallback
\* decoded it, replacing the invalid bytes.
C6_Witness ==
    /\ dpc = "done"
    /\ upload.content_type = PdfType
    /\ ~IsText(upload)
    /\ ~parsers.PyPDF2
    /\ upload.data = <<195, 65, 255>>
    /\ decoded.rule = "fallback"
    /\ decoded.text = <<Replacement, "A", Replacement>>

------------------------------------------------------------------------------
(* Claims about the handlers, under SpecApi. *)

\* The store after the step is the store before it with n more documents.
Grows(n) == Len(db') = Len(db) + n /\ SubSeq(db', 1, Len(db)) = db

\* C9: an upload of no bytes is answered 400 "Empty file" with neither the
\* decoder nor the generator called and the store unchanged; an upload of
\* some bytes calls each once and stores the rfp, then the proposal, whose
\* rfp_id is the _id of that rfp.
C9_UploadStep ==
    (response'.handler = "upload_rfp" /\ response'.request.data = << >> =>
        /\ response'.status = 400
        /\ response'.detail = EmptyFile
        /\ db' = db
        /\ calls' = calls)
    /\ (response'.handler = "upload_rfp" /\ response'.request.data # << >> =>
        /\ response'.status = 200
        /\ Grows(2)
        /\ db'[Len(db) + 1].coll = "rfp"
        /\ db'[Len(db) + 2].coll = "proposal"
        /\ db'[Len(db) + 2].doc.rfp_id = db'[Len(db) + 1].id
        /\ response'.rfp_id = db'[Len(db) + 1].id
        /\ response'.proposal_id = db'[Len(db) + 2].id
        /\ calls'.decoder = calls.decoder + 1
        /\ calls'.generator = calls.generator + 1)
C9_Upload == [][C9_UploadStep]_vars

\* An empty upload was rejected with documents in the store, an rfp and its
\* proposal among them.
C9_Witness ==
    /\ response.handler = "upload_rfp"
    /\ response.status = 400
    /\ Len(db) >= 2
    /\ db[Len(db)].coll = "proposal"
    /\ db[Len(db)].doc.rfp_id = db[Len(db) - 1].id
    /\ calls = [decoder |-> 1, generator |-> 1]

\* The fields regenerate_proposal_doc overwrites.
Overwritten == {"version", "placeholdersJson", "status", "created_at", "updated_at"}
\* The proposaldocs of the store with the _id oid.
Sources(oid) == {i \in 1..Len(db) : db[i].coll = "proposaldoc" /\ db[i].id = oid}

\* C10: create_proposal_doc stores one document, of version 1;
\* regenerate_proposal_doc on the id of a proposaldoc adds one document with
\* the source's version (1 when it has none) plus 1 and the source's other
\* fields, leaving every stored document as it was; on a malformed id (400)
\* or an unknown one (404) the store is unchanged.
C10_VersionStep ==
    (response'.handler = "create_proposal_doc" =>
        /\ Grows(1)
        /\ db'[Len(db')].coll = "proposaldoc"
        /\ db'[Len(db')].doc.version = 1
        /\ response'.version = 1)
    /\ (response'.handler = "regenerate_proposal_doc" =>
        LET oid == response'.request.doc_id.oid IN
        IF ~response'.request.doc_id.valid
        THEN response'.status = 400 /\ db' = db
        ELSE IF Sources(oid) = {}
        THEN response'.status = 404 /\ db' = db
        ELSE \E i \in Sources(oid) :
                /\ response'.status = 200
                /\ Grows(1)
                /\ db'[Len(db')].coll = "proposaldoc"
                /\ db'[Len(db')].doc.version =
                       (IF "version" \in DOMAIN db[i].doc THEN db[i].doc.version ELSE 1) + 1
                /\ \A f \in DOMAIN db[i].doc \ Overwritten :
                       db'[Len(db')].doc[f] = db[i].doc[f])
C10_Versions == [][C10_VersionStep]_vars

\* A document was regenerated from a regenerated one (version 3), and a
\* document without version was regenerated to version 2.
C10_Witness ==
    /\ response.handler = "regenerate_proposal_doc"
    /\ response.status = 200
    /\ db[Len(db)].doc.version = 3
    /\ "version" \notin DOMAIN db[1].doc
    /\ db[2].doc.version = 2
====
